---- MODULE Spec2Model ----
(***************************************************************************)
(* The todo application of 01-overview/todo-app: the Todo model            *)
(* (todos/models.py), its ModelForm (todos/forms.py) and the five views    *)
(* (todos/views.py), as a state machine over the record store.             *)
(*                                                                         *)
(* Text values are abstracted to their shape: a string is a run of `lead`  *)
(* whitespace characters, `core` characters that start and end with a      *)
(* non-whitespace character, and `trail` whitespace characters.  An        *)
(* optional value (Python None, a key missing from the POST data) is the   *)
(* empty sequence, a present value v is <<v>>.                             *)
(***************************************************************************)
EXTENDS Integers, Sequences, FiniteSets, TLC

VARIABLES
    store,      \* the todos table: pk -> row
    nextId,     \* the table's AutoField sequence: the pk of the next INSERT
    now,        \* the clock timezone.now() reads
    response,   \* what the last request answered
    inflight    \* per worker: the pk and Todo instance a toggle has loaded and not yet saved

vars == <<store, nextId, now, response, inflight>>

\* ---------------------------------------------------------------- bounds
MaxId == 2
MaxTime == 1
NumWorkers == 2

\* models.py:8  title = models.CharField(max_length=200)
MaxLength == 200

\* ---------------------------------------------------------------- values
Nothing == <<>>
Just(v) == <<v>>

Str(l, c, t) == [lead |-> l, core |-> c, trail |-> t]
EmptyStr == Str(0, 0, 0)
StrLen(s) == s.lead + s.core + s.trail

\* forms.CharField.to_python (strip=True): str.strip() of the submitted text
strip(s) == Str(0, s.core, 0)

\* timezone.now().date(): a day is two ticks of the clock, and the clock starts on
\* the last tick of day 0
DateOf(t) == (t + 1) \div 2
Days == 0..DateOf(MaxTime)
Times == 0..MaxTime
Ids == 1..MaxId
Workers == 1..NumWorkers

\* ---------------------------------------------------------------- models.py
\* The fields of a Todo row (the pk is the key of `store`).
Todo(title, description, due_date, is_resolved, created_at, updated_at) ==
    [title |-> title, description |-> description, due_date |-> due_date,
     is_resolved |-> is_resolved, created_at |-> created_at, updated_at |-> updated_at]

\* mutant: the comparison admits the due date itself
is_overdue_mut(todo, t) ==
    IF todo.due_date # Nothing /\ ~todo.is_resolved
    THEN todo.due_date[1] <= DateOf(t)
    ELSE FALSE

\* Todo.is_overdue, read while the clock shows t
is_overdue(todo, t) ==
    IF todo.due_date # Nothing /\ ~todo.is_resolved
    THEN todo.due_date[1] < DateOf(t)
    ELSE FALSE

\* mutant: auto_now_add behaves like auto_now
pre_save_mut(todo, add, t1, t2) ==
    [todo EXCEPT !.created_at = t1, !.updated_at = t2]

\* DateTimeField.pre_save of created_at (auto_now_add) and updated_at (auto_now):
\* t1 and t2 are the two successive readings of the clock
pre_save(todo, add, t1, t2) ==
    [todo EXCEPT !.created_at = IF add THEN t1 ELSE @, !.updated_at = t2]

\* The instance save() writes: an UPDATE of the row with this pk and, when no row
\* has it, an INSERT (Model.save of an instance that carries a pk).
save(st, pk, todo, t) ==
    IF pk \in DOMAIN st
    THEN [st EXCEPT ![pk] = pre_save(todo, FALSE, t, t)]
    ELSE st @@ (pk :> pre_save(todo, TRUE, t, t))

\* Meta.ordering = ['-created_at']: the sequences a SELECT ... ORDER BY created_at DESC
\* over the rows `pks` may return; the order of rows with equal created_at is the
\* database's choice.
ordering(st, pks) ==
    {q \in [1..Cardinality(pks) -> pks] :
        /\ \A i, j \in DOMAIN q : i # j => q[i] # q[j]
        /\ \A i, j \in DOMAIN q : i < j => st[q[i]].created_at >= st[q[j]].created_at}

\* ---------------------------------------------------------------- forms.py
\* POST data: each of the four fields of TodoForm.Meta.fields, submitted or not.
FormData(title, description, due_date, is_resolved) ==
    [title |-> title, description |-> description, due_date |-> due_date,
     is_resolved |-> is_resolved]

\* The form's CharField for title and description: a missing key is the empty
\* string, a submitted text is stripped.
clean_title(raw) == IF raw = Nothing THEN EmptyStr ELSE strip(raw[1])

clean_description(raw) == IF raw = Nothing THEN EmptyStr ELSE strip(raw[1])

\* The form's DateField: blank is None, a text that is no date is an error.
clean_due_date(raw) == IF raw = Nothing \/ ~raw[1].ok THEN Nothing ELSE Just(raw[1].day)

\* The form's BooleanField behind a CheckboxInput: a missing key is False.
clean_is_resolved(raw) == IF raw = Nothing THEN FALSE ELSE raw[1]

cleaned_data(data) ==
    [title |-> clean_title(data.title), description |-> clean_description(data.description),
     due_date |-> clean_due_date(data.due_date),
     is_resolved |-> clean_is_resolved(data.is_resolved)]

\* mutant: max_length is not enforced
title_errors_mut(data) ==
    IF StrLen(clean_title(data.title)) = 0 THEN {"title"} ELSE {}

\* title: required (blank=False), max_length=200, both judged on the cleaned value
title_errors(data) ==
    IF StrLen(clean_title(data.title)) = 0 \/ StrLen(clean_title(data.title)) > MaxLength
    THEN {"title"}
    ELSE {}

due_date_errors(data) ==
    IF data.due_date # Nothing /\ ~data.due_date[1].ok THEN {"due_date"} ELSE {}

DayInput(d) == Just([ok |-> TRUE, day |-> d])
BadDate == Just([ok |-> FALSE, day |-> 0])
\* The forms that save: a bare title and nothing else; a title of max_length
\* characters behind a leading blank, with every other field filled.
ValidForms ==
    {FormData(Just(Str(0, 1, 0)), Nothing, Nothing, Nothing),
     FormData(Just(Str(1, MaxLength, 0)), Just(Str(0, 1, 1)), DayInput(0), Just(TRUE))}
\* The forms that do not: no title key, a blank title, a title of max_length + 1
\* characters, and a good title beside a text that is no date.
InvalidForms ==
    {FormData(Nothing, Just(Str(0, 1, 0)), Nothing, Just(FALSE)),
     FormData(Just(Str(1, 0, 1)), Nothing, DayInput(0), Just(TRUE)),
     FormData(Just(Str(0, MaxLength + 1, 0)), Nothing, Nothing, Nothing),
     FormData(Just(Str(0, 1, 0)), Nothing, BadDate, Nothing)}
Forms == ValidForms \cup InvalidForms
\* mutant: the title is not validated
form_errors_mut(data) == due_date_errors(data)

\* form.errors: the fields that failed validation (form.is_valid() iff none did)
form_errors(data) == title_errors(data) \cup due_date_errors(data)

\* form.errors and form.cleaned_data of each form of the model, computed once
FormErrors == [data \in Forms |-> form_errors(data)]
CleanedData == [data \in Forms |-> cleaned_data(data)]

\* mutant: description is missing from Meta.fields
construct_instance_mut(todo, data) ==
    [todo EXCEPT !.title = CleanedData[data].title,
                 !.due_date = CleanedData[data].due_date,
                 !.is_resolved = CleanedData[data].is_resolved]

\* ModelForm.save(): every field of Meta.fields is set from cleaned_data
construct_instance(todo, data) ==
    [todo EXCEPT !.title = CleanedData[data].title,
                 !.description = CleanedData[data].description,
                 !.due_date = CleanedData[data].due_date,
                 !.is_resolved = CleanedData[data].is_resolved]

\* Todo(): the field defaults of models.py
NewTodo == Todo(EmptyStr, EmptyStr, Nothing, FALSE, 0, 0)

\* ---------------------------------------------------------------- requests
\* ?filter=... of the list URL: absent, the three known values, and another one
Filters == {Nothing, Just("all"), Just("resolved"), Just("unresolved"), Just("done")}
\* the pks a URL may name: every pk the model can assign, and one it never assigns
Pks == 1..(MaxId + 1)

\* What a request answered: the view, the HTTP status, form.errors, and the list
\* view's context['todos'] and context['filter'].
Response(view, status, errors, todos, filter) ==
    [view |-> view, status |-> status, errors |-> errors, todos |-> todos, filter |-> filter]
NoResponse == Response("none", 0, {}, <<>>, "")

\* get_object_or_404(Todo, pk=pk) / SingleObjectMixin.get_object
get_object_or_404(st, pk) == IF pk \in DOMAIN st THEN Just(st[pk]) ELSE Nothing

\* ---------------------------------------------------------------- views.py
\* mutant: the two filters are exchanged
filter_rows_mut(st, filter_type) ==
    IF filter_type = "resolved" THEN {pk \in DOMAIN st : ~st[pk].is_resolved}
    ELSE IF filter_type = "unresolved" THEN {pk \in DOMAIN st : st[pk].is_resolved}
    ELSE DOMAIN st

\* TodoListView.get_queryset: the rows the filter keeps
filter_rows(st, filter_type) ==
    IF filter_type = "resolved" THEN {pk \in DOMAIN st : st[pk].is_resolved}
    ELSE IF filter_type = "unresolved" THEN {pk \in DOMAIN st : ~st[pk].is_resolved}
    ELSE DOMAIN st

\* request.GET.get('filter', 'all')
filter_param(raw) == IF raw = Nothing THEN "all" ELSE raw[1]

\* mutant: the rows come back in ascending created_at
get_queryset_mut(st, raw) ==
    {q \in [1..Cardinality(filter_rows(st, filter_param(raw))) -> filter_rows(st, filter_param(raw))] :
        /\ \A i, j \in DOMAIN q : i # j => q[i] # q[j]
        /\ \A i, j \in DOMAIN q : i < j => st[q[i]].created_at <= st[q[j]].created_at}

\* TodoListView.get_queryset: the sequences the query may evaluate to
get_queryset(st, raw) == ordering(st, filter_rows(st, filter_param(raw)))

\* What a view leaves behind: the table and its answer.
Outcome(st, resp) == [store |-> st, response |-> resp]

\* TodoListView on GET /?filter=raw: the answers it may give
TodoListView(st, raw) ==
    {Response("list", 200, {}, q, filter_param(raw)) : q \in get_queryset(st, raw)}

\* TodoCreateView on POST /create/ : pk is the pk the table assigns, t1 and t2 the
\* two readings of timezone.now() that fill created_at and updated_at
TodoCreateView(st, pk, data, t1, t2) ==
    IF FormErrors[data] = {}
    THEN Outcome(st @@ (pk :> pre_save(construct_instance(NewTodo, data), TRUE, t1, t2)),
                 Response("create", 302, {}, <<>>, ""))
    ELSE Outcome(st, Response("create", 200, FormErrors[data], <<>>, ""))

\* TodoUpdateView on POST /<pk>/update/ at time t
TodoUpdateView(st, pk, data, t) ==
    IF get_object_or_404(st, pk) = Nothing
    THEN Outcome(st, Response("update", 404, {}, <<>>, ""))
    ELSE IF FormErrors[data] = {}
    THEN Outcome(save(st, pk, construct_instance(st[pk], data), t),
                 Response("update", 302, {}, <<>>, ""))
    ELSE Outcome(st, Response("update", 200, FormErrors[data], <<>>, ""))

\* Model.delete(): DELETE FROM todos WHERE id = pk
delete_row(st, pk) == [k \in DOMAIN st \ {pk} |-> st[k]]

\* TodoDeleteView on POST /<pk>/delete/
TodoDeleteView(st, pk) ==
    IF get_object_or_404(st, pk) = Nothing
    THEN Outcome(st, Response("delete", 404, {}, <<>>, ""))
    ELSE Outcome(delete_row(st, pk), Response("delete", 302, {}, <<>>, ""))

\* mutant: the toggle only ever resolves
negate_mut(todo) == [todo EXCEPT !.is_resolved = TRUE]

\* todo.is_resolved = not todo.is_resolved
negate(todo) == [todo EXCEPT !.is_resolved = ~@]

\* toggle_resolved on GET /<pk>/toggle/ at time t, no other request in between
toggle_resolved(st, pk, t) ==
    IF get_object_or_404(st, pk) = Nothing
    THEN Outcome(st, Response("toggle", 404, {}, <<>>, ""))
    ELSE Outcome(save(st, pk, negate(st[pk]), t), Response("toggle", 302, {}, <<>>, ""))

\* ---------------------------------------------------------------- requests
GetList(raw) ==
    /\ response' \in TodoListView(store, raw)
    /\ UNCHANGED <<store, nextId, now, inflight>>

\* d is how far the clock moves between the two readings of a create that saves
PostCreate(data, d) ==
    LET out == TodoCreateView(store, nextId, data, now, now + d)
    IN /\ IF out.response.status = 302
          THEN /\ nextId <= MaxId
               /\ now + d <= MaxTime
               /\ nextId' = nextId + 1
               /\ now' = now + d
          ELSE /\ d = 0
               /\ UNCHANGED <<nextId, now>>
       /\ store' = out.store
       /\ response' = out.response
       /\ UNCHANGED inflight

PostUpdate(pk, data) ==
    LET out == TodoUpdateView(store, pk, data, now)
    IN /\ store' = out.store
       /\ response' = out.response
       /\ UNCHANGED <<nextId, now, inflight>>

PostDelete(pk) ==
    LET out == TodoDeleteView(store, pk)
    IN /\ store' = out.store
       /\ response' = out.response
       /\ UNCHANGED <<nextId, now, inflight>>

GetToggle(pk) ==
    LET out == toggle_resolved(store, pk, now)
    IN /\ store' = out.store
       /\ response' = out.response
       /\ UNCHANGED <<nextId, now, inflight>>

\* time passes between requests
Tick ==
    /\ now < MaxTime
    /\ now' = now + 1
    /\ UNCHANGED <<store, nextId, response, inflight>>

\* GET /<pk>/toggle/ in worker w, up to the return of get_object_or_404
toggle_load(w, pk) ==
    /\ inflight[w] = Nothing
    /\ UNCHANGED <<store, nextId, now>>
    /\ IF get_object_or_404(store, pk) = Nothing
       THEN /\ response' = Response("toggle", 404, {}, <<>>, "")
            /\ UNCHANGED inflight
       ELSE /\ inflight' = [inflight EXCEPT ![w] = Just([pk |-> pk, todo |-> store[pk]])]
            /\ UNCHANGED response

\* ... and from there: the negation of the loaded instance, and its save()
toggle_save(w) ==
    /\ inflight[w] # Nothing
    /\ store' = save(store, inflight[w][1].pk, negate(inflight[w][1].todo), now)
    /\ response' = Response("toggle", 302, {}, <<>>, "")
    /\ inflight' = [inflight EXCEPT ![w] = Nothing]
    /\ UNCHANGED <<nextId, now>>

\* ---------------------------------------------------------------- specification
Init ==
    /\ store = <<>>
    /\ nextId = 1
    /\ now = 0
    /\ response = NoResponse
    /\ inflight = [w \in Workers |-> Nothing]

Next ==
    \/ \E raw \in Filters : GetList(raw)
    \/ \E data \in Forms, d \in {0, 1} : PostCreate(data, d)
    \/ \E pk \in Pks, data \in Forms : PostUpdate(pk, data)
    \/ \E pk \in Pks : PostDelete(pk)
    \/ \E pk \in Pks : GetToggle(pk)
    \/ Tick

\* One request at a time: each handler runs to its response before the next starts.
Spec == Init /\ [][Next]_vars

NextConc ==
    \/ \E data \in ValidForms : PostCreate(data, 0)
    \/ \E pk \in Ids, data \in ValidForms : PostUpdate(pk, data)
    \/ \E pk \in Ids : PostDelete(pk)
    \/ \E w \in Workers, pk \in Ids : toggle_load(w, pk)
    \/ \E w \in Workers : toggle_save(w)
    \/ Tick

\* Several workers: a toggle's load and its save are separate steps, and the other
\* workers' requests may run between them.
SpecConc == Init /\ [][NextConc]_vars

\* ---------------------------------------------------------------- properties
MaybeDays == {Nothing} \cup {Just(d) : d \in Days}
Range(q) == {q[i] : i \in DOMAIN q}
SubmittedTitle(data) == IF data.title = Nothing THEN EmptyStr ELSE data.title[1]

\* C1: for every stored record, under every due date, resolved flag and reading of
\* the clock, is_overdue is true exactly when the due date is set, the record is
\* unresolved and the due date is strictly before the current date; a record due
\* today is not overdue, and resolving it or clearing its due date makes it not overdue.
C1_is_overdue_iff ==
    \A pk \in DOMAIN store, t \in Times, due \in MaybeDays, res \in BOOLEAN :
        LET todo == [store[pk] EXCEPT !.due_date = due, !.is_resolved = res]
        IN /\ is_overdue(todo, t) <=> (due # Nothing /\ ~res /\ due[1] < DateOf(t))
           /\ (due # Nothing /\ due[1] = DateOf(t)) => ~is_overdue(todo, t)
           /\ ~is_overdue([todo EXCEPT !.is_resolved = TRUE], t)
           /\ ~is_overdue([todo EXCEPT !.due_date = Nothing], t)

\* a stored record is overdue now, beside one that is not
C1_witness ==
    /\ \E pk \in DOMAIN store : is_overdue(store[pk], now)
    /\ \E pk \in DOMAIN store : ~is_overdue(store[pk], now)

\* the rows list(filter) is to return
ExpectedRows(filter_type) ==
    IF filter_type = "resolved" THEN {pk \in DOMAIN store : store[pk].is_resolved}
    ELSE IF filter_type = "unresolved" THEN {pk \in DOMAIN store : ~store[pk].is_resolved}
    ELSE DOMAIN store

\* C2: a list request returns, each once, exactly the resolved records for
\* filter=resolved, exactly the unresolved ones for filter=unresolved, and every
\* record for filter=all, no filter or any other value; and a step that answers a
\* list request changes no record.
C2_list_filters ==
    [][response'.view = "list" =>
          /\ store' = store
          /\ nextId' = nextId
          /\ Range(response'.todos) = ExpectedRows(response'.filter)
          /\ Len(response'.todos) = Cardinality(ExpectedRows(response'.filter))]_vars

\* a filtered list of one record was answered while the store holds a resolved and
\* an unresolved record
C2_witness ==
    /\ response.view = "list"
    /\ response.filter = "resolved"
    /\ Len(response.todos) = 1
    /\ \E p, q \in DOMAIN store : store[p].is_resolved /\ ~store[q].is_resolved

\* C3 (amended): the sequence a list request returns is in descending created_at
\* order; nothing is said of two records with equal created_at.
C3_sorted_descending ==
    response.view = "list" =>
        \A i, j \in DOMAIN response.todos :
            i < j => store[response.todos[i]].created_at >= store[response.todos[j]].created_at

\* C3 (as claimed): descending created_at, and records with equal created_at in
\* insertion order (the earlier pk first).
C3_ties_by_insertion ==
    response.view = "list" =>
        \A i, j \in DOMAIN response.todos :
            i < j =>
                \/ store[response.todos[i]].created_at > store[response.todos[j]].created_at
                \/ /\ store[response.todos[i]].created_at = store[response.todos[j]].created_at
                   /\ response.todos[i] < response.todos[j]

\* a list of two records created at the same reading of the clock
C3_witness ==
    /\ response.view = "list"
    /\ Len(response.todos) = 2
    /\ store[response.todos[1]].created_at = store[response.todos[2]].created_at

\* C4: always, a toggle of a stored record flips is_resolved and sets updated_at to the
\* current time; a second toggle of the same record right after it, at that or any
\* later time, flips it back to the value the first one found and sets updated_at
\* again; neither touches another field or record.
C4_toggle_self_inverse ==
    [](\A pk \in DOMAIN store, t \in now..MaxTime :
           LET once == toggle_resolved(store, pk, now)
               twice == toggle_resolved(once.store, pk, t)
           IN /\ once.response.status = 302
              /\ once.store = [store EXCEPT ![pk].is_resolved = ~@, ![pk].updated_at = now]
              /\ twice.response.status = 302
              /\ twice.store = [store EXCEPT ![pk].updated_at = t])

\* a toggle has just resolved a record that was created unresolved at an earlier time
C4_witness ==
    /\ response.view = "toggle"
    /\ response.status = 302
    /\ \E pk \in DOMAIN store :
          /\ store[pk].is_resolved
          /\ store[pk].due_date = Nothing
          /\ store[pk].updated_at = now
          /\ store[pk].created_at < now

\* C5 (as claimed): a delete of a stored record succeeds, lowers the record count by
\* exactly one and leaves get(pk) not found; and deletion is permanent: no step
\* brings back a pk that was assigned and is gone.
C5_delete_permanent ==
    [][/\ \A pk \in DOMAIN store :
            LET out == TodoDeleteView(store, pk)
            IN /\ out.response.status = 302
               /\ Cardinality(DOMAIN out.store) = Cardinality(DOMAIN store) - 1
               /\ get_object_or_404(out.store, pk) = Nothing
       /\ \A pk \in 1..(nextId - 1) : pk \notin DOMAIN store => pk \notin DOMAIN store']_vars

\* a delete succeeded while a toggle of the deleted record has loaded it and not yet
\* saved
C5_witness ==
    /\ response.view = "delete"
    /\ response.status = 302
    /\ \E w \in Workers :
          inflight[w] # Nothing /\ inflight[w][1].pk \notin DOMAIN store

\* C6: every stored record has a title of 1 to max_length characters.
C6_title_bounds ==
    \A pk \in DOMAIN store :
        StrLen(store[pk].title) >= 1 /\ StrLen(store[pk].title) <= MaxLength

\* a record with a title of exactly max_length characters, beside a toggled record
C6_witness ==
    /\ \E pk \in DOMAIN store : StrLen(store[pk].title) = MaxLength
    /\ \E pk \in DOMAIN store : store[pk].updated_at > store[pk].created_at

\* C7: always, every stored record has created_at <= updated_at; a successful update or
\* toggle keeps the record's created_at and sets its updated_at to the current time;
\* and a create gives the new record a created_at read during the request and an
\* updated_at equal to the time the request ends at.
C7_timestamps ==
    [](/\ \A pk \in DOMAIN store : store[pk].created_at <= store[pk].updated_at
       /\ \A pk \in DOMAIN store :
             \A out \in {toggle_resolved(store, pk, now)}
                           \cup {TodoUpdateView(store, pk, data, now) : data \in ValidForms} :
                 /\ out.response.status = 302
                 /\ out.store[pk].created_at = store[pk].created_at
                 /\ out.store[pk].updated_at = now
       /\ \A data \in ValidForms, d \in {0, 1} :
             LET out == TodoCreateView(store, nextId, data, now, now + d)
             IN /\ out.response.status = 302
                /\ out.store[nextId].created_at \in now..(now + d)
                /\ out.store[nextId].updated_at = now + d)

\* an update or toggle was saved on a record created at an earlier time
C7_witness ==
    /\ response.view \in {"update", "toggle"}
    /\ response.status = 302
    /\ \E pk \in DOMAIN store :
          store[pk].created_at < store[pk].updated_at /\ store[pk].updated_at = now

\* the answer of a request that failed: the form shown again with its errors, or not-found
Failed(r) == r.status = 404 \/ (r.view \in {"create", "update"} /\ r.status = 200)

\* the answer to a form refused for its title
TitleError(r) == r.status = 200 /\ "title" \in r.errors

\* the forms whose title is empty or over max_length characters once stripped
StrippedTitleBad ==
    {data \in Forms : \/ StrLen(strip(SubmittedTitle(data))) = 0
                     \/ StrLen(strip(SubmittedTitle(data))) > MaxLength}

\* the forms whose title is empty or over max_length characters as submitted
SubmittedTitleBad ==
    {data \in Forms : \/ StrLen(SubmittedTitle(data)) = 0
                     \/ StrLen(SubmittedTitle(data)) > MaxLength}

\* every request that fails leaves the records as they are; a create, or an update
\* of a stored record, with a form of `bad` answers a validation error on title; and
\* update, delete and toggle of a pk that is not stored answer not-found
FailureRule(bad) ==
    /\ \A data \in Forms :
          LET out == TodoCreateView(store, nextId, data, now, now)
          IN /\ Failed(out.response) => out.store = store
             /\ data \in bad => (TitleError(out.response) /\ out.store = store)
    /\ \A pk \in Pks, data \in Forms :
          LET out == TodoUpdateView(store, pk, data, now)
          IN /\ Failed(out.response) => out.store = store
             /\ pk \notin DOMAIN store => out.response.status = 404
             /\ (pk \in DOMAIN store /\ data \in bad) =>
                   (TitleError(out.response) /\ out.store = store)
    /\ \A pk \in Pks \ DOMAIN store :
          \A out \in {TodoDeleteView(store, pk), toggle_resolved(store, pk, now)} :
              out.response.status = 404 /\ out.store = store

\* C8 (amended): always, every request that fails leaves the records unchanged; a
\* create or update whose title is empty or over max_length characters once its
\* surrounding whitespace is stripped answers a validation error on title and changes
\* no record; update, delete and toggle of a pk that is not stored answer not-found and
\* change no record.
C8_failure_no_effect == []FailureRule(StrippedTitleBad)

\* C8 (as claimed): the same, the title judged as submitted.
C8_submitted_title == []FailureRule(SubmittedTitleBad)

\* an update of a stored record was refused for its title
C8_witness ==
    /\ response.view = "update"
    /\ TitleError(response)
    /\ store # <<>>

\* what a successful update of pk at time t makes of the table, its fields aside:
\* the same pks, the record's created_at kept and its updated_at = t, every other
\* record as it was
UpdateFrame(out, pk, t) ==
    /\ out.response.status = 302
    /\ DOMAIN out.store = DOMAIN store
    /\ out.store[pk].created_at = store[pk].created_at
    /\ out.store[pk].updated_at = t
    /\ \A other \in DOMAIN store \ {pk} : out.store[other] = store[other]

\* C9 (amended): always, a successful update of a stored record stores each provided
\* field as submitted, title and description without their surrounding whitespace, sets
\* updated_at to the current time and leaves the pks, the record's created_at and every
\* other record unchanged.
C9_update_overwrites ==
    [](\A pk \in DOMAIN store, data \in ValidForms :
           LET out == TodoUpdateView(store, pk, data, now)
           IN /\ UpdateFrame(out, pk, now)
              /\ out.store[pk].title = strip(data.title[1])
              /\ data.description # Nothing =>
                    out.store[pk].description = strip(data.description[1])
              /\ data.due_date # Nothing =>
                    out.store[pk].due_date = Just(data.due_date[1].day)
              /\ data.is_resolved # Nothing =>
                    out.store[pk].is_resolved = data.is_resolved[1])

\* C9 (as claimed): ... stores each provided field with the submitted value.
C9_submitted_values ==
    [](\A pk \in DOMAIN store, data \in ValidForms :
           LET out == TodoUpdateView(store, pk, data, now)
           IN /\ UpdateFrame(out, pk, now)
              /\ out.store[pk].title = data.title[1]
              /\ data.description # Nothing =>
                    out.store[pk].description = data.description[1]
              /\ data.due_date # Nothing =>
                    out.store[pk].due_date = Just(data.due_date[1].day)
              /\ data.is_resolved # Nothing =>
                    out.store[pk].is_resolved = data.is_resolved[1])

\* an update was saved at a later time than the record's creation, beside another record
C9_witness ==
    /\ response.view = "update"
    /\ response.status = 302
    /\ Cardinality(DOMAIN store) = 2
    /\ \E pk \in DOMAIN store :
          store[pk].updated_at = now /\ store[pk].created_at < now

\* C10 (as claimed): the save of a toggle acts as one indivisible flip of the row as
\* it is stored then: is_resolved negated, updated_at refreshed, every other field
\* and record as stored; and when the row has been deleted meanwhile, nothing is
\* written.
C10_toggle_atomic ==
    [][\A w \in Workers :
          (inflight[w] # Nothing /\ inflight'[w] = Nothing) =>
              LET pk == inflight[w][1].pk
              IN IF pk \in DOMAIN store
                 THEN store' = [store EXCEPT ![pk] =
                                   [@ EXCEPT !.is_resolved = ~@, !.updated_at = now]]
                 ELSE store' = store]_vars

====
